---- MODULE Spec2Model ----
(***************************************************************************)
(* A model of the AutoSRE backend (src/backend/main.py): the log analysis  *)
(* functions, the AlertManager, the ConnectionManager, the /ws handler and *)
(* the GET endpoints of the log files.                                     *)
(*                                                                         *)
(* Text is a sequence of one-character strings, so that splitlines and the *)
(* two regular expressions are computed character by character.  A float   *)
(* percentage is the exact fraction [num, den].  Timestamps are left out   *)
(* of every record: no claim reads them.                                   *)
(***************************************************************************)
EXTENDS Integers, Sequences, FiniteSets, TLC

\* ------------------------------------------------------------ bounds
MaxLines == 4      \* lines of a log text given to the analysis functions
MaxFileLines == 2  \* lines appended to the log file while the server runs
MaxMsgs == 3       \* messages recorded per subscriber
MaxFailures == 2   \* failed sends counted per handler
MaxSummaryLines == 5  \* lines of a log text given to analyze_logs_simple alone
MaxSockets == 4    \* WebSocket objects of a ConnectionManager used on its own

\* -------------------------------------------------------- characters
DQ == "\""
SP == " "
NL == "\n"

IsSpace(c) == c \in {SP, NL, "\t"}

IsDigit(c) == c \in {"0", "1", "2", "3", "4", "5", "6", "7", "8", "9"}

SetMin(S) == CHOOSE m \in S : \A n \in S : m <= n

\* str.splitlines(): the loop over the characters of s from position i,
\* cur the line being read, acc the lines read so far.
RECURSIVE SplitFrom(_, _, _, _)
SplitFrom(s, i, cur, acc) ==
    IF i > Len(s)
    THEN IF cur = <<>> THEN acc ELSE Append(acc, cur)
    ELSE IF s[i] = NL
         THEN SplitFrom(s, i + 1, <<>>, Append(acc, cur))
         ELSE SplitFrom(s, i + 1, Append(cur, s[i]), acc)

splitlines(s) == SplitFrom(s, 1, <<>>, <<>>)

\* re.search(r'"\s(\d{3})\s', line): <<>> for None, else <<group(1)>> of the
\* leftmost match.
StatusMatchAt(line, i) ==
    /\ i + 5 <= Len(line)
    /\ line[i] = DQ
    /\ IsSpace(line[i + 1])
    /\ IsDigit(line[i + 2]) /\ IsDigit(line[i + 3]) /\ IsDigit(line[i + 4])
    /\ IsSpace(line[i + 5])

status_match(line) ==
    LET hits == {i \in 1..Len(line) : StatusMatchAt(line, i)}
    IN  IF hits = {} THEN <<>>
        ELSE <<SubSeq(line, SetMin(hits) + 2, SetMin(hits) + 4)>>

\* server_error_match with the pattern of the status field, '"\s5\d{2}\s'.
StatusFieldErrorMatch(line) ==
    \E i \in 1..Len(line) :
        /\ i + 5 <= Len(line)
        /\ line[i] = DQ
        /\ IsSpace(line[i + 1])
        /\ line[i + 2] = "5"
        /\ IsDigit(line[i + 3]) /\ IsDigit(line[i + 4])
        /\ IsSpace(line[i + 5])

\* re.search(r'\s5\d{2}\s', line) as a truth value.
server_error_match(line) ==
    \E i \in 1..Len(line) :
        /\ i + 4 <= Len(line)
        /\ IsSpace(line[i])
        /\ line[i + 1] = "5"
        /\ IsDigit(line[i + 2]) /\ IsDigit(line[i + 3])
        /\ IsSpace(line[i + 4])

\* IsErrorStatus without the startswith('4') test.
ServerErrorStatusOnly(status) == status[1] = "5"

\* status.startswith('4') or status.startswith('5')
IsErrorStatus(status) == status[1] = "4" \/ status[1] = "5"

\* status_counts[status] = status_counts.get(status, 0) + 1 on a dict kept
\* as the sequence of its items in insertion order.
DictIncr(d, key) ==
    IF \E j \in 1..Len(d) : d[j].key = key
    THEN [j \in 1..Len(d) |->
            IF d[j].key = key THEN [key |-> key, count |-> d[j].count + 1]
            ELSE d[j]]
    ELSE Append(d, [key |-> key, count |-> 1])

\* The "for line in lines" loop shared by analyze_logs and
\* analyze_logs_simple, from line k on.
RECURSIVE CountLoop(_, _, _)
CountLoop(lines, k, st) ==
    IF k > Len(lines) THEN st
    ELSE LET m == status_match(lines[k])
         IN  IF m = <<>> THEN CountLoop(lines, k + 1, st)
             ELSE CountLoop(lines, k + 1,
                    [status_counts |-> DictIncr(st.status_counts, m[1]),
                     error_requests |->
                        IF IsErrorStatus(m[1])
                        THEN Append(st.error_requests, lines[k])
                        ELSE st.error_requests])

EmptyCount == [status_counts |-> <<>>, error_requests |-> <<>>]

\* SuccessRate with the share of the error requests in place of the share of
\* the others.
SuccessRateOfErrors(total, errors) ==
    IF total > 0 THEN [num |-> errors * 100, den |-> total]
    ELSE [num |-> 0, den |-> 1]

\* ((total - errors) / total * 100) if total > 0 else 0, as a fraction.
SuccessRate(total, errors) ==
    IF total > 0 THEN [num |-> (total - errors) * 100, den |-> total]
    ELSE [num |-> 0, den |-> 1]

analyze_logs(logs) ==
    LET lines == splitlines(logs)
        total_requests == Len(lines)
        st == CountLoop(lines, 1, EmptyCount)
    IN  [total_requests |-> total_requests,
         status_code_distribution |-> st.status_counts,
         error_count |-> Len(st.error_requests),
         success_rate |-> SuccessRate(total_requests, Len(st.error_requests))]

\* parse_logs: the lines with a 5xx token, in input order.
parse_logs(logs) ==
    SelectSeq(splitlines(logs), server_error_match)

\* InsertDesc putting an item before the items of equal count.
InsertDescTiesFirst(res, it) ==
    LET p == Cardinality({j \in 1..Len(res) : res[j].count > it.count})
    IN  SubSeq(res, 1, p) \o <<it>> \o SubSeq(res, p + 1, Len(res))

\* sorted(status_counts.items(), key=lambda x: x[1], reverse=True): a stable
\* sort, so items of equal count keep their insertion order.
InsertDesc(res, it) ==
    LET p == Cardinality({j \in 1..Len(res) : res[j].count >= it.count})
    IN  SubSeq(res, 1, p) \o <<it>> \o SubSeq(res, p + 1, Len(res))

RECURSIVE SortDesc(_, _, _)
SortDesc(items, k, res) ==
    IF k > Len(items) THEN res
    ELSE SortDesc(items, k + 1, InsertDesc(res, items[k]))

\* [k for k, v in sorted(...) if k.startswith('4') or k.startswith('5')][:3]
TopErrorCodes(status_counts) ==
    LET sorted == SortDesc(status_counts, 1, <<>>)
        errs == SelectSeq(sorted, LAMBDA it : IsErrorStatus(it.key))
        keys == [j \in 1..Len(errs) |-> errs[j].key]
    IN  SubSeq(keys, 1, IF Len(keys) < 3 THEN Len(keys) ELSE 3)

\* Format1f cutting the digits after the first decimal instead of rounding.
Format1fTruncate(rate) == (rate.num * 10) \div rate.den

\* f"{rate:.1f}": the number of tenths printed, rounding half to even.
Format1f(rate) ==
    LET q == (rate.num * 10) \div rate.den
        r == (rate.num * 10) % rate.den
    IN  IF 2 * r < rate.den THEN q
        ELSE IF 2 * r > rate.den THEN q + 1
        ELSE IF q % 2 = 0 THEN q ELSE q + 1

\* analyze_logs_simple: the summary string as the record of what its lines
\* print; codes is <<>> when the "Most common error status codes" line is
\* absent, else <<the codes listed>>.
analyze_logs_simple(logs) ==
    LET lines == splitlines(logs)
        total_requests == Len(lines)
        st == CountLoop(lines, 1, EmptyCount)
        errors == Len(st.error_requests)
    IN  [kind |-> "analysis",
         total_requests |-> total_requests,
         error_requests |-> errors,
         success_rate_1f |-> Format1f(SuccessRate(total_requests, errors)),
         codes |-> IF errors > 0 THEN <<TopErrorCodes(st.status_counts)>>
                   ELSE <<>>]

\* ------------------------------------------------------ AlertManager
\* ALERT_THRESHOLDS
CpuThreshold == 80
MemoryThreshold == 85
DiskThreshold == 90
ErrorRateThreshold == 10

\* UsagePercent with a missing reading taken as 100.
UsagePercentMissingFull(metrics, key) ==
    IF metrics[key] = <<>> THEN 100 ELSE metrics[key][1]

\* A reading is <<>> when the key is missing and <<v>> when it is v.
\* metrics.get(key, {}).get("usage_percent", 0)
UsagePercent(metrics, key) ==
    IF metrics[key] = <<>> THEN 0 ELSE metrics[key][1]

\* ErrorRateCondition with <= in place of <.
ErrorRateConditionInclusive(analysis) ==
    /\ analysis # <<>>
    /\ LET rate == IF analysis[1].success_rate = <<>>
                   THEN [num |-> 100, den |-> 1]
                   ELSE analysis[1].success_rate[1]
       IN  rate.num <= (100 - ErrorRateThreshold) * rate.den

\* analysis and analysis.get("success_rate", 100) < (100 - error_rate);
\* analysis is <<>> when it is None or {}, else <<[success_rate |-> reading]>>
\* with the reading a fraction.
ErrorRateCondition(analysis) ==
    /\ analysis # <<>>
    /\ LET rate == IF analysis[1].success_rate = <<>>
                   THEN [num |-> 100, den |-> 1]
                   ELSE analysis[1].success_rate[1]
       IN  rate.num < (100 - ErrorRateThreshold) * rate.den

\* RuleBlock without the "not in self.active_alerts" test: an event on every
\* call where the condition holds.
RuleBlockNoSuppress(st, condition, alert_id) ==
    IF condition
    THEN [alerts |-> Append(st.alerts, alert_id),
          active_alerts |-> st.active_alerts \cup {alert_id}]
    ELSE [alerts |-> st.alerts,
          active_alerts |-> st.active_alerts \ {alert_id}]

\* RuleBlock without the discard of the else branch.
RuleBlockNoDiscard(st, condition, alert_id) ==
    IF condition
    THEN IF alert_id \notin st.active_alerts
         THEN [alerts |-> Append(st.alerts, alert_id),
               active_alerts |-> st.active_alerts \cup {alert_id}]
         ELSE st
    ELSE st

\* One "if condition: ... else: discard" block of check_alerts, on the pair
\* (alerts, active_alerts); alerts holds the ids of the events appended.
RuleBlock(st, condition, alert_id) ==
    IF condition
    THEN IF alert_id \notin st.active_alerts
         THEN [alerts |-> Append(st.alerts, alert_id),
               active_alerts |-> st.active_alerts \cup {alert_id}]
         ELSE st
    ELSE [alerts |-> st.alerts,
          active_alerts |-> st.active_alerts \ {alert_id}]

\* check_alerts with the memory block before the cpu block.
check_alertsMemoryFirst(active, metrics, analysis) ==
    LET s0 == [alerts |-> <<>>, active_alerts |-> active]
        s1 == RuleBlock(s0, UsagePercent(metrics, "memory") > MemoryThreshold,
                        "high_memory")
        s2 == RuleBlock(s1, UsagePercent(metrics, "cpu") > CpuThreshold,
                        "high_cpu")
        s3 == RuleBlock(s2, ErrorRateCondition(analysis), "high_error_rate")
    IN  s3

\* AlertManager.check_alerts: the returned alerts and the new active_alerts.
check_alerts(active, metrics, analysis) ==
    LET s0 == [alerts |-> <<>>, active_alerts |-> active]
        s1 == RuleBlock(s0, UsagePercent(metrics, "cpu") > CpuThreshold,
                        "high_cpu")
        s2 == RuleBlock(s1, UsagePercent(metrics, "memory") > MemoryThreshold,
                        "high_memory")
        s3 == RuleBlock(s2, ErrorRateCondition(analysis), "high_error_rate")
    IN  s3

\* ---------------------------------------------------------- the state
VARIABLES
    fn_logs,          \* the text a log function is applied to
    fn_analysis,      \* <<>> or <<what analyze_logs returned for fn_logs>>
    fn_error_logs,    \* <<>> or <<what parse_logs returned>>
    fn_summary,       \* <<>> or <<what analyze_logs_simple returned>>
    active_alerts,    \* alert_manager.active_alerts
    alerts_returned,  \* the ids of the events the last check_alerts returned
    calls,            \* the inputs of the last two check_alerts calls
    log_file,         \* LOG_FILE_PATH: [status, content]
    active_connections, \* manager.active_connections, a list
    gauge,            \* ACTIVE_CONNECTIONS
    pc,               \* where each connection's websocket_endpoint task is
    closed,           \* whether the connection is closed: sends to it fail
    outcome,          \* how the send a handler is suspended in ends
    inbox,            \* the types of the first MaxMsgs messages delivered to each
    last,             \* what the last observed step did: the last initial or
                      \* update step, or the last call of the manager on its own
    cleanups,         \* how often each handler's finally block has run
    send_failures,    \* how many sends of each handler have failed, up to MaxFailures
    bc,               \* the manager.broadcast call of the driver task
    error_log_file,   \* ERROR_LOG_FILE_PATH: [status]
    response          \* the response to the last HTTP request

fnVars == <<fn_logs, fn_analysis, fn_error_logs, fn_summary>>

alertVars == <<active_alerts, alerts_returned, calls>>

wsVars ==
    <<log_file, active_connections, gauge, pc, closed, outcome, inbox, last,
      cleanups, send_failures, bc>>

httpVars == <<error_log_file, response>>

otherVars == <<fnVars, alertVars, httpVars>>

vars == <<fnVars, alertVars, wsVars, httpVars>>

\* ------------------------------------------------ log function inputs
\* Access-log lines cut down to the fields the two patterns read: the end of
\* the quoted request, the status, the size, one more field.
\* G" 200 12 -
Line200 ==
    <<"G", DQ, SP, "2", "0", "0", SP, "1", "2", SP, "-">>

\* P" 201 567 -
Line201 ==
    <<"P", DQ, SP, "2", "0", "1", SP, "5", "6", "7", SP, "-">>

\* G" 404 12 -
Line404 ==
    <<"G", DQ, SP, "4", "0", "4", SP, "1", "2", SP, "-">>

\* G" 500 12 -
Line500 ==
    <<"G", DQ, SP, "5", "0", "0", SP, "1", "2", SP, "-">>

\* oops
LineNoStatus ==
    <<"o", "o", "p", "s">>

LineEmpty == <<>>

LogLines ==
    {Line200, Line201, Line404, Line500, LineNoStatus, LineEmpty}

\* The texts of at most n lines of LogLines, each line ended by a newline.
RECURSIVE TextsUpTo(_)
TextsUpTo(n) ==
    IF n = 0 THEN {<<>>}
    ELSE TextsUpTo(n - 1)
         \cup {t \o l \o <<NL>> : t \in TextsUpTo(n - 1), l \in LogLines}

\* G" 403 12 -
Line403 ==
    <<"G", DQ, SP, "4", "0", "3", SP, "1", "2", SP, "-">>

\* G" 502 12 -
Line502 ==
    <<"G", DQ, SP, "5", "0", "2", SP, "1", "2", SP, "-">>

\* The lines of the texts given to analyze_logs_simple alone: four error
\* statuses and one that is no error.
SummaryLines == {Line200, Line403, Line404, Line500, Line502}

RECURSIVE SummaryTexts(_)
SummaryTexts(n) ==
    IF n = 0 THEN {<<>>}
    ELSE SummaryTexts(n - 1)
         \cup {t \o l \o <<NL>> : t \in SummaryTexts(n - 1),
                                   l \in SummaryLines}

InitFn ==
    /\ fn_logs \in TextsUpTo(MaxLines)
    /\ fn_analysis = <<>>
    /\ fn_error_logs = <<>>
    /\ fn_summary = <<>>

InitAlert ==
    /\ active_alerts = {}
    /\ alerts_returned = <<>>
    /\ calls = <<>>

CallAnalyzeLogs ==
    /\ fn_analysis' = <<analyze_logs(fn_logs)>>
    /\ UNCHANGED <<fn_logs, fn_error_logs, fn_summary, alertVars,
                   wsVars, httpVars>>

CallParseLogs ==
    /\ fn_error_logs' = <<parse_logs(fn_logs)>>
    /\ UNCHANGED <<fn_logs, fn_analysis, fn_summary, alertVars,
                   wsVars, httpVars>>

CallAnalyzeLogsSimple ==
    /\ fn_summary' = <<analyze_logs_simple(fn_logs)>>
    /\ UNCHANGED <<fn_logs, fn_analysis, fn_error_logs, alertVars,
                   wsVars, httpVars>>

\* ------------------------------------------------- check_alerts inputs
CpuReadings == {<<>>, <<80>>, <<85>>}

MemoryReadings == {<<>>, <<85>>, <<90>>}

DiskReadings == {<<60>>, <<95>>}

MetricsInputs ==
    [cpu : CpuReadings, memory : MemoryReadings, disk : DiskReadings]

Whole(n) == [num |-> n, den |-> 1]

\* What analyze_logs returns for the empty text, as check_alerts reads it.
EmptyTextAnalysis ==
    <<[success_rate |-> <<analyze_logs(<<>>).success_rate>>]>>

AnalysisInputs ==
    {<<>>,
     <<[success_rate |-> <<>>]>>,
     <<[success_rate |-> <<Whole(85)>>]>>,
     <<[success_rate |-> <<Whole(90)>>]>>,
     EmptyTextAnalysis}

LastTwo(s) == IF Len(s) <= 2 THEN s ELSE SubSeq(s, Len(s) - 1, Len(s))

CheckAlerts(metrics, analysis) ==
    LET r == check_alerts(active_alerts, metrics, analysis)
    IN  /\ active_alerts' = r.active_alerts
        /\ alerts_returned' = r.alerts
        /\ calls' = LastTwo(Append(calls,
                        [metrics |-> metrics, analysis |-> analysis]))
        /\ UNCHANGED <<fnVars, wsVars, httpVars>>

\* ----------------------------------------------------- the log file
\* status is "missing" (os.path.exists is false), "present", or "unreadable"
\* (the file exists and open() or read() raises).
WsLogLines == {Line200, Line500}

LineCount(text) == Len(splitlines(text))

LogCreate ==
    /\ log_file.status = "missing"
    /\ log_file' = [status |-> "present", content |-> <<>>]

LogAppend(line) ==
    /\ log_file.status = "present"
    /\ LineCount(log_file.content) < MaxFileLines
    /\ log_file' = [log_file EXCEPT !.content = @ \o line \o <<NL>>]

LogRemove ==
    /\ log_file.status # "missing"
    /\ log_file' = [status |-> "missing", content |-> <<>>]

LogProtect ==
    /\ log_file.status = "present"
    /\ log_file' = [log_file EXCEPT !.status = "unreadable"]

LogUnprotect ==
    /\ log_file.status = "unreadable"
    /\ log_file' = [log_file EXCEPT !.status = "present"]

\* ------------------------------------------------------- the messages
\* InitialDataMsg with the analysis computed from a second read of the file,
\* made after one more line was appended.
InitialDataMsgSecondRead(logs) ==
    [type |-> "initial_data",
     logs |-> logs,
     analysis |-> analyze_logs(logs \o Line500 \o <<NL>>),
     error_logs |-> parse_logs(logs),
     summary |-> analyze_logs_simple(logs)]

\* A message is the record of its JSON fields, timestamp left out.
InitialDataMsg(logs) ==
    [type |-> "initial_data",
     logs |-> logs,
     analysis |-> analyze_logs(logs),
     error_logs |-> parse_logs(logs),
     summary |-> analyze_logs_simple(logs)]

\* UpdateMsg with the analysis of the last line of the file only.
UpdateMsgLastLine(logs) ==
    [type |-> "update",
     analysis |-> IF splitlines(logs) = <<>> THEN analyze_logs(<<>>)
                  ELSE analyze_logs(
                          splitlines(logs)[Len(splitlines(logs))] \o <<NL>>),
     summary |-> analyze_logs_simple(logs)]

UpdateMsg(logs) ==
    [type |-> "update",
     analysis |-> analyze_logs(logs),
     summary |-> analyze_logs_simple(logs)]

EmptyUpdateMsg ==
    [type |-> "update",
     analysis |-> [total_requests |-> 0,
                   status_code_distribution |-> <<>>,
                   error_count |-> 0,
                   success_rate |-> Whole(100)],
     summary |-> [kind |-> "text", text |-> "No log file found"]]

ErrorMsg(text) == [type |-> "error", message |-> text]

\* ------------------------------------------------- ConnectionManager
\* The connections: two WebSocket objects.
Handles == {1, 2}

\* ListRemove filling the place of x with the last element of the list.
ListRemoveSwap(list, x) ==
    LET first == SetMin({j \in 1..Len(list) : list[j] = x})
    IN  [j \in 1..(Len(list) - 1) |->
            IF j = first THEN list[Len(list)] ELSE list[j]]

\* list.remove(x): the list without the first occurrence of x.
ListRemove(list, x) ==
    LET first == SetMin({j \in 1..Len(list) : list[j] = x})
    IN  SubSeq(list, 1, first - 1) \o SubSeq(list, first + 1, Len(list))

InList(list, x) == \E j \in 1..Len(list) : list[j] = x

\* disconnect without the remove.
disconnectKeep(list, websocket) == list

\* ConnectionManager.disconnect: the new active_connections.
disconnect(list, websocket) ==
    IF InList(list, websocket) THEN ListRemove(list, websocket) ELSE list

\* The manager used on its own, as TestConnectionManager does: connect and
\* disconnect called for WebSocket objects that have no handler task.  A
\* WebSocket object is connected when it is not registered: the program
\* calls connect once per object.
Sockets == 1..MaxSockets

ConnectCall(h) ==
    /\ ~InList(active_connections, h)
    /\ active_connections' = Append(active_connections, h)
    /\ last' = [handle |-> h, step |-> "connect", source |-> "absent",
                sent |-> <<>>]
    /\ UNCHANGED <<log_file, gauge, pc, closed, outcome, inbox, cleanups,
                   send_failures, bc, otherVars>>

DisconnectCall(h) ==
    /\ active_connections' = disconnect(active_connections, h)
    /\ last' = [handle |-> h, step |-> "disconnect",
                source |-> IF InList(active_connections, h)
                           THEN "registered" ELSE "absent",
                sent |-> <<>>]
    /\ UNCHANGED <<log_file, gauge, pc, closed, outcome, inbox, cleanups,
                   send_failures, bc, otherVars>>

\* What "await websocket.send_text(...)" does when it is called: the message
\* is handed to a connection that is open, and the call will raise when the
\* connection is closed.  The awaiting task resumes in a later step.
SendOutcome(h) == IF closed[h] THEN "fail" ELSE "ok"

Record(box, entry) ==
    IF Len(box) < MaxMsgs THEN Append(box, entry) ELSE box

Deliver(box, h, entry) ==
    IF closed[h] THEN box ELSE [box EXCEPT ![h] = Record(box[h], entry)]

\* inbox, last and send_failures are observations, not state of the program.
\* A specification records one of them: obs is "inbox", "step" or "failures",
\* and the other two variables keep their initial values.
Delivered(obs, h, entry) ==
    IF obs = "inbox" THEN Deliver(inbox, h, entry) ELSE inbox

Stepped(obs, entry) == IF obs = "step" THEN entry ELSE last

\* send_failures is an observation too, recorded when obs is "failures": the
\* send a handler starts to a closed connection is one more failed send.
Failed(obs, h) ==
    IF obs = "failures" /\ closed[h] /\ send_failures[h] < MaxFailures
    THEN [send_failures EXCEPT ![h] = @ + 1]
    ELSE send_failures

BcRunning == bc.pc \in {"next", "send"}

\* The bookkeeping of the broadcast call in progress when another task
\* changes the registry to newList.
BcSeesChange(newList) ==
    IF BcRunning /\ newList # active_connections
    THEN [bc EXCEPT !.interfered = TRUE,
                    !.stayed = {h \in @ : InList(newList, h)}]
    ELSE bc

IdleBroadcast ==
    [pc |-> "idle", idx |-> 0, conn |-> 0, outcome |-> "none",
     start |-> <<>>, sent_to |-> <<>>, delivered |-> {}, failed |-> {},
     stayed |-> {}, interfered |-> FALSE]

\* The driver calls manager.broadcast(message).
BroadcastCall ==
    /\ ~BcRunning
    /\ bc' = [IdleBroadcast EXCEPT !.pc = "next",
                                   !.start = active_connections,
                                   !.stayed = {active_connections[j] :
                                                 j \in 1..Len(active_connections)}]
    /\ UNCHANGED <<log_file, active_connections, gauge, pc, closed, outcome,
                   inbox, last, cleanups, send_failures,
                   otherVars>>

\* BroadcastNext with an iterator that advances by two.
BroadcastNextSkip ==
    /\ bc.pc = "next"
    /\ IF bc.idx < Len(active_connections)
       THEN LET conn == active_connections[bc.idx + 1]
            IN  /\ bc' = [bc EXCEPT
                            !.pc = "send",
                            !.idx = @ + 2,
                            !.conn = conn,
                            !.outcome = SendOutcome(conn),
                            !.sent_to = Append(@, conn),
                            !.delivered = IF closed[conn] THEN @
                                          ELSE @ \cup {conn},
                            !.failed = IF closed[conn] THEN @ \cup {conn}
                                       ELSE @]
                /\ inbox' = Deliver(inbox, conn,
                                "update")
       ELSE /\ bc' = [bc EXCEPT !.pc = "done"]
            /\ UNCHANGED inbox
    /\ UNCHANGED <<log_file, active_connections, gauge, pc, closed, outcome,
                   last, cleanups, send_failures,
                   otherVars>>

\* "for connection in self.active_connections": the list iterator yields the
\* element at its index, if there is one, and the send to it starts.
BroadcastNext ==
    /\ bc.pc = "next"
    /\ IF bc.idx < Len(active_connections)
       THEN LET conn == active_connections[bc.idx + 1]
            IN  /\ bc' = [bc EXCEPT
                            !.pc = "send",
                            !.idx = @ + 1,
                            !.conn = conn,
                            !.outcome = SendOutcome(conn),
                            !.sent_to = Append(@, conn),
                            !.delivered = IF closed[conn] THEN @
                                          ELSE @ \cup {conn},
                            !.failed = IF closed[conn] THEN @ \cup {conn}
                                       ELSE @]
                /\ inbox' = Deliver(inbox, conn,
                                "update")
       ELSE /\ bc' = [bc EXCEPT !.pc = "done"]
            /\ UNCHANGED inbox
    /\ UNCHANGED <<log_file, active_connections, gauge, pc, closed, outcome,
                   last, cleanups, send_failures,
                   otherVars>>

\* The broadcast resumes from the send: on an exception it runs
\* self.active_connections.remove(connection), which raises ValueError out
\* of broadcast when the connection is no longer in the list.
BroadcastResume ==
    /\ bc.pc = "send"
    /\ IF bc.outcome = "ok"
       THEN /\ bc' = [bc EXCEPT !.pc = "next", !.outcome = "none"]
            /\ UNCHANGED active_connections
       ELSE IF InList(active_connections, bc.conn)
            THEN /\ active_connections'
                      = ListRemove(active_connections, bc.conn)
                 /\ bc' = [bc EXCEPT !.pc = "next", !.outcome = "none",
                                     !.stayed = @ \ {bc.conn}]
            ELSE /\ bc' = [bc EXCEPT !.pc = "raised", !.outcome = "none"]
                 /\ UNCHANGED active_connections
    /\ UNCHANGED <<log_file, gauge, pc, closed, outcome, inbox, last,
                   cleanups, send_failures,
                   otherVars>>

\* ------------------------------------------------ websocket_endpoint
NoStep == [handle |-> 0, step |-> "none", source |-> "none", sent |-> <<>>]

\* The client opens a connection: the handler task starts and is suspended
\* in "await websocket.accept()".
Accept(h) ==
    /\ pc[h] = "idle"
    /\ pc' = [pc EXCEPT ![h] = "accepting"]
    /\ UNCHANGED <<log_file, active_connections, gauge, closed, outcome,
                   inbox, last, cleanups, send_failures, bc,
                   otherVars>>

\* The connection closes: from now on every send to it fails.
Close(h) ==
    /\ pc[h] \notin {"idle", "ended"}
    /\ ~closed[h]
    /\ closed' = [closed EXCEPT ![h] = TRUE]
    /\ UNCHANGED <<log_file, active_connections, gauge, pc, outcome, inbox,
                   last, cleanups, send_failures, bc,
                   otherVars>>

\* send_initial_data up to its first await: the message it sends and whether
\* the send is the one of the try block or the one of the except block.
InitialSend ==
    CASE log_file.status = "present" ->
            [msg |-> InitialDataMsg(log_file.content), at |-> "initial_send"]
      [] log_file.status = "missing" ->
            [msg |-> ErrorMsg("Log file not found"), at |-> "initial_send"]
      [] log_file.status = "unreadable" ->
            [msg |-> ErrorMsg("Error loading initial data"),
             at |-> "error_send"]

\* accept() returns: manager.connect appends the handle, the gauge is
\* incremented and send_initial_data runs up to its send, all without an
\* await in between.
Connect(h, obs) ==
    /\ pc[h] = "accepting"
    /\ active_connections' = Append(active_connections, h)
    /\ bc' = BcSeesChange(Append(active_connections, h))
    /\ gauge' = gauge + 1
    /\ pc' = [pc EXCEPT ![h] = InitialSend.at]
    /\ outcome' = [outcome EXCEPT ![h] = SendOutcome(h)]
    /\ inbox' = Delivered(obs, h,
                    InitialSend.msg.type)
    /\ last' = Stepped(obs, [handle |-> h, step |-> "initial",
                source |-> log_file.status, sent |-> <<InitialSend.msg>>])
    /\ send_failures' = Failed(obs, h)
    /\ UNCHANGED <<log_file, closed, cleanups,
                   otherVars>>

\* The send of the try block of send_initial_data returns or raises; when it
\* raises, the except block sends an error message.
InitialSendResume(h, obs) ==
    /\ pc[h] = "initial_send"
    /\ IF outcome[h] = "ok"
       THEN /\ pc' = [pc EXCEPT ![h] = "sleep"]
            /\ outcome' = [outcome EXCEPT ![h] = "none"]
            /\ UNCHANGED <<inbox, last, send_failures,
                   otherVars>>
       ELSE /\ pc' = [pc EXCEPT ![h] = "error_send"]
            /\ outcome' = [outcome EXCEPT ![h] = SendOutcome(h)]
            /\ inbox' = Delivered(obs, h,
                            "error")
            /\ last' = Stepped(obs, [handle |-> h, step |-> "initial_error",
                        source |-> "none",
                        sent |-> <<ErrorMsg("Error loading initial data")>>])
            /\ send_failures' = Failed(obs, h)
    /\ UNCHANGED <<log_file, active_connections, gauge, closed, cleanups, bc,
                   otherVars>>

\* The send of the except block of send_initial_data returns or raises; when
\* it raises, the exception leaves websocket_endpoint through its except and
\* finally blocks: manager.disconnect and ACTIVE_CONNECTIONS.dec().
ErrorSendResume(h) ==
    /\ pc[h] = "error_send"
    /\ outcome' = [outcome EXCEPT ![h] = "none"]
    /\ IF outcome[h] = "ok"
       THEN /\ pc' = [pc EXCEPT ![h] = "sleep"]
            /\ UNCHANGED <<active_connections, gauge, cleanups, bc,
                   otherVars>>
       ELSE /\ pc' = [pc EXCEPT ![h] = "ended"]
            /\ active_connections' = disconnect(active_connections, h)
            /\ bc' = BcSeesChange(disconnect(active_connections, h))
            /\ gauge' = gauge - 1
            /\ cleanups' = [cleanups EXCEPT ![h] = @ + 1]
    /\ UNCHANGED <<log_file, closed, inbox, last, send_failures,
                   otherVars>>

\* asyncio.sleep(5) returns and check_for_updates runs up to its send; when
\* reading the file raises, the except block prints and nothing is sent.
UpdateCycle(h, obs) ==
    /\ pc[h] = "sleep"
    /\ IF log_file.status = "unreadable"
       THEN /\ last' = Stepped(obs, [handle |-> h, step |-> "update",
                        source |-> "unreadable", sent |-> <<>>])
            /\ UNCHANGED <<pc, outcome, inbox, send_failures,
                   otherVars>>
       ELSE LET msg == IF log_file.status = "present"
                       THEN UpdateMsg(log_file.content)
                       ELSE EmptyUpdateMsg
            IN  /\ pc' = [pc EXCEPT ![h] = "update_send"]
                /\ outcome' = [outcome EXCEPT ![h] = SendOutcome(h)]
                /\ inbox' = Delivered(obs, h,
                                "update")
                /\ last' = Stepped(obs, [handle |-> h, step |-> "update",
                            source |-> log_file.status, sent |-> <<msg>>])
                /\ send_failures' = Failed(obs, h)
    /\ UNCHANGED <<log_file, active_connections, gauge, closed, cleanups, bc,
                   otherVars>>

\* The send of check_for_updates returns or raises; its "except Exception"
\* swallows the exception, so the loop goes on to the next sleep either way.
UpdateSendResume(h) ==
    /\ pc[h] = "update_send"
    /\ pc' = [pc EXCEPT ![h] = "sleep"]
    /\ outcome' = [outcome EXCEPT ![h] = "none"]
    /\ UNCHANGED <<log_file, active_connections, gauge, closed, inbox, last,
                   cleanups, send_failures, bc,
                   otherVars>>

HandlerStep(h, obs) ==
    \/ Connect(h, obs)
    \/ InitialSendResume(h, obs)
    \/ ErrorSendResume(h)
    \/ UpdateCycle(h, obs)
    \/ UpdateSendResume(h)

LogStep ==
    /\ \/ LogCreate
       \/ \E line \in WsLogLines : LogAppend(line)
       \/ LogRemove
       \/ LogProtect
       \/ LogUnprotect
    /\ UNCHANGED <<active_connections, gauge, pc, closed, outcome, inbox,
                   last, cleanups, send_failures, bc,
                   otherVars>>

InitWs ==
    /\ log_file = [status |-> "missing", content |-> <<>>]
    /\ active_connections = <<>>
    /\ gauge = 0
    /\ pc = [h \in Handles |-> "idle"]
    /\ closed = [h \in Handles |-> FALSE]
    /\ outcome = [h \in Handles |-> "none"]
    /\ inbox = [h \in Handles |-> <<>>]
    /\ last = NoStep
    /\ cleanups = [h \in Handles |-> 0]
    /\ send_failures = [h \in Handles |-> 0]
    /\ bc = IdleBroadcast

\* ------------------------------------------------- the GET endpoints
FileStatuses == {"missing", "present", "unreadable"}

\* What the framework answers for a handler that returns body: HTTP 200.
Ok(body) == [status |-> 200, body |-> body]

\* What the framework answers for a handler that raises: the exception of
\* open() or read() is caught by no handler of the application, and the
\* server answers 500 Internal Server Error.
Unhandled == [status |-> 500, body |-> [text |-> "Internal Server Error"]]

NotFound(text) == Ok([error |-> text])

get_logs(file) ==
    CASE file.status = "present" -> Ok([logs |-> file.content])
      [] file.status = "unreadable" -> Unhandled
      [] file.status = "missing" -> NotFound("Log file not found")

get_error_logs(file) ==
    CASE file.status = "present" -> Ok([error_logs |-> <<>>])
      [] file.status = "unreadable" -> Unhandled
      [] file.status = "missing" -> NotFound("Error log file not found")

summarize_logs_endpoint(file) ==
    CASE file.status = "present" ->
            Ok([summary |-> analyze_logs_simple(file.content)])
      [] file.status = "unreadable" -> Unhandled
      [] file.status = "missing" -> NotFound("Log file not found")

analyze_logs_endpoint(file) ==
    CASE file.status = "present" -> Ok(analyze_logs(file.content))
      [] file.status = "unreadable" -> Unhandled
      [] file.status = "missing" -> NotFound("Log file not found")

Endpoints ==
    {"/get_logs/", "/get_error_logs/", "/summarize_logs/", "/analyze_logs/"}

\* One GET request, answered without an await: the response and the state
\* of the file the endpoint read.
Get(endpoint) ==
    /\ response' =
          CASE endpoint = "/get_logs/" ->
                  [endpoint |-> endpoint, source |-> log_file.status,
                   answer |-> get_logs(log_file)]
            [] endpoint = "/get_error_logs/" ->
                  [endpoint |-> endpoint, source |-> error_log_file.status,
                   answer |-> get_error_logs(error_log_file)]
            [] endpoint = "/summarize_logs/" ->
                  [endpoint |-> endpoint, source |-> log_file.status,
                   answer |-> summarize_logs_endpoint(log_file)]
            [] endpoint = "/analyze_logs/" ->
                  [endpoint |-> endpoint, source |-> log_file.status,
                   answer |-> analyze_logs_endpoint(log_file)]
    /\ UNCHANGED <<fnVars, alertVars, wsVars, error_log_file>>

\* The error log appears, disappears or changes its permissions.
ErrorLogStep ==
    /\ \E st \in FileStatuses \ {error_log_file.status} :
           error_log_file' = [status |-> st]
    /\ UNCHANGED <<fnVars, alertVars, wsVars, response>>

NoResponse ==
    [endpoint |-> "none", source |-> "none",
     answer |-> [status |-> 0, body |-> [none |-> TRUE]]]

InitHttp ==
    /\ error_log_file = [status |-> "missing"]
    /\ response = NoResponse

\* ---------------------------------------------------- specifications
Init == InitFn /\ InitAlert /\ InitWs /\ InitHttp

NextFn == CallAnalyzeLogs \/ CallParseLogs \/ CallAnalyzeLogsSimple

SpecFn == Init /\ [][NextFn]_vars

NextAlert ==
    \E metrics \in MetricsInputs, analysis \in AnalysisInputs :
        CheckAlerts(metrics, analysis)

InitFnIdle ==
    /\ fn_logs = <<>> /\ fn_analysis = <<>>
    /\ fn_error_logs = <<>> /\ fn_summary = <<>>

InitServer == InitFnIdle /\ InitAlert /\ InitWs /\ InitHttp

SpecAlert == InitServer /\ [][NextAlert]_vars

ClientStep == \E h \in Handles : Accept(h) \/ Close(h)

HandlerSteps(obs) == \E h \in Handles : HandlerStep(h, obs)

LogStatusStep ==
    /\ LogCreate \/ LogRemove \/ LogProtect \/ LogUnprotect
    /\ UNCHANGED <<active_connections, gauge, pc, closed, outcome, inbox,
                   last, cleanups, send_failures, bc, otherVars>>

\* The connections, the broadcast driver and a log file that appears,
\* disappears and becomes unreadable.
NextHub ==
    \/ ClientStep
    \/ HandlerSteps("inbox")
    \/ BroadcastCall
    \/ BroadcastNext
    \/ BroadcastResume
    \/ LogStatusStep

SpecHub == InitServer /\ [][NextHub]_vars

\* The connections and a log file that is also written to.
NextFeed ==
    \/ ClientStep
    \/ HandlerSteps("step")
    \/ LogStep

SpecFeed == InitServer /\ [][NextFeed]_vars

\* Every handler task that can run does run: the event loop resumes a task
\* whose await has completed, and asyncio.sleep(5) returns.
NextLife ==
    \/ ClientStep
    \/ HandlerSteps("inbox")
    \/ LogStatusStep

FairSpecLife ==
    /\ InitServer
    /\ [][NextLife]_vars
    /\ \A h \in Handles : WF_vars(HandlerStep(h, "inbox"))

\* The connections alone, with the failed sends of each handler counted.
NextRetry ==
    \/ ClientStep
    \/ HandlerSteps("failures")
    \/ LogStatusStep

SpecRetry == InitServer /\ [][NextRetry]_vars

\* The connections and a log file that exists from the start and only grows
\* by whole lines.
InitGrow ==
    /\ InitFnIdle /\ InitAlert /\ InitHttp
    /\ log_file = [status |-> "present", content |-> <<>>]
    /\ active_connections = <<>>
    /\ gauge = 0
    /\ pc = [h \in Handles |-> "idle"]
    /\ closed = [h \in Handles |-> FALSE]
    /\ outcome = [h \in Handles |-> "none"]
    /\ inbox = [h \in Handles |-> <<>>]
    /\ last = NoStep
    /\ cleanups = [h \in Handles |-> 0]
    /\ send_failures = [h \in Handles |-> 0]
    /\ bc = IdleBroadcast

LogGrowStep ==
    /\ \E line \in WsLogLines : LogAppend(line)
    /\ UNCHANGED <<active_connections, gauge, pc, closed, outcome, inbox,
                   last, cleanups, send_failures, bc, otherVars>>

NextGrow ==
    \/ ClientStep
    \/ HandlerSteps("step")
    \/ LogGrowStep

SpecGrow == InitGrow /\ [][NextGrow]_vars

\* analyze_logs_simple alone, on texts with up to four error statuses.
InitSummary ==
    /\ fn_logs \in SummaryTexts(MaxSummaryLines)
    /\ fn_analysis = <<>>
    /\ fn_error_logs = <<>>
    /\ fn_summary = <<>>
    /\ InitAlert /\ InitWs /\ InitHttp

NextSummary == CallAnalyzeLogsSimple

SpecSummary == InitSummary /\ [][NextSummary]_vars

\* The ConnectionManager on its own.
NextRegistry ==
    \E h \in Sockets : ConnectCall(h) \/ DisconnectCall(h)

SpecRegistry == InitServer /\ [][NextRegistry]_vars

\* The GET endpoints and the two log files.
NextHttp ==
    \/ \E endpoint \in Endpoints : Get(endpoint)
    \/ LogStep
    \/ ErrorLogStep

SpecHttp == InitServer /\ [][NextHttp]_vars

\* ------------------------------------------------------------ claims
Range(s) == {s[j] : j \in 1..Len(s)}

RuleIds == {"high_cpu", "high_memory", "high_error_rate"}

\* The condition of a rule on the inputs of one call.
RuleHolds(rule, call) ==
    CASE rule = "high_cpu" ->
            UsagePercent(call.metrics, "cpu") > CpuThreshold
      [] rule = "high_memory" ->
            UsagePercent(call.metrics, "memory") > MemoryThreshold
      [] rule = "high_error_rate" -> ErrorRateCondition(call.analysis)

LastCall == calls[Len(calls)]

\* C2: a check_alerts call returns an event for a rule iff the rule's
\* predicate holds on the call's inputs and either the call is the first one
\* or the predicate did not hold on the call before it.
C2_EdgeTriggered ==
    calls # <<>> =>
        \A rule \in RuleIds :
            rule \in Range(alerts_returned)
            <=> /\ RuleHolds(rule, LastCall)
                /\ Len(calls) = 1 \/ ~RuleHolds(rule, calls[1])

\* C2 witness: a later call re-emits high_cpu after one false reading, while
\* high_memory, which held on both calls, stays silent.
C2_Witness ==
    /\ Len(calls) = 2
    /\ ~RuleHolds("high_cpu", calls[1]) /\ RuleHolds("high_cpu", calls[2])
    /\ RuleHolds("high_memory", calls[1]) /\ RuleHolds("high_memory", calls[2])
    /\ alerts_returned = <<"high_cpu">>

\* C3: after every check_alerts call active_alerts is exactly the set of the
\* rules whose predicate held on that call's inputs, and a rule whose
\* predicate did not hold has no event in what the call returned.
C3_ActiveIsHeldSet ==
    calls # <<>> =>
        /\ active_alerts = {rule \in RuleIds : RuleHolds(rule, LastCall)}
        /\ \A rule \in RuleIds :
               ~RuleHolds(rule, LastCall) => rule \notin Range(alerts_returned)

\* C3 witness: high_error_rate held on the call before, does not hold on this
\* one and is gone from active_alerts, while high_cpu is still active.
C3_Witness ==
    /\ Len(calls) = 2
    /\ RuleHolds("high_error_rate", calls[1])
    /\ ~RuleHolds("high_error_rate", calls[2])
    /\ RuleHolds("high_cpu", calls[2])
    /\ active_alerts = {"high_cpu"}

RECURSIVE SumCounts(_, _)
SumCounts(d, k) ==
    IF k > Len(d) THEN 0 ELSE d[k].count + SumCounts(d, k + 1)

\* C4: for every text, total_requests of analyze_logs equals the sum of the
\* counts of status_code_distribution (a line without a status is not
\* counted).
C4_TotalIsSumOfCounts ==
    fn_analysis # <<>> =>
        fn_analysis[1].total_requests
            = SumCounts(fn_analysis[1].status_code_distribution, 1)

\* C5: analyze_logs of the empty text returns total_requests 0, an empty
\* distribution, error_count 0 and success_rate exactly 100.0.
C5_EmptyTextAnalysis ==
    (fn_logs = <<>> /\ fn_analysis # <<>>) =>
        /\ fn_analysis[1].total_requests = 0
        /\ fn_analysis[1].status_code_distribution = <<>>
        /\ fn_analysis[1].error_count = 0
        /\ fn_analysis[1].success_rate.num = 100 * fn_analysis[1].success_rate.den

\* C1: a broadcast call during which no other task changes the registry
\* attempts a send to every subscriber registered when it was called: each
\* one either received the payload or had its send fail and is absent from
\* active_connections once the call has returned.
C1_BroadcastReachesAll ==
    (bc.pc = "done" /\ ~bc.interfered) =>
        \A h \in Range(bc.start) :
            \/ h \in bc.delivered
            \/ h \in bc.failed /\ ~InList(active_connections, h)

InitialCount(h) ==
    Cardinality({k \in 1..Len(inbox[h]) : inbox[h][k] = "initial_data"})

\* C6: every connection is sent exactly one initial_data message, whatever
\* the state of the log file, and no update reaches it before that message.
C6_OneInitialBeforeUpdates ==
    \A h \in Handles :
        /\ InitialCount(h) <= 1
        /\ pc[h] \in {"sleep", "update_send"} => InitialCount(h) = 1
        /\ \A k \in 1..Len(inbox[h]) :
               inbox[h][k] = "update" =>
                   \E j \in 1..(k - 1) : inbox[h][j] = "initial_data"

\* C7: once a connection is closed, its handler task eventually ends and the
\* connection is eventually out of active_connections.
C7_ClosedHandlerEnds ==
    \A h \in Handles :
        closed[h] ~> (pc[h] = "ended" /\ ~InList(active_connections, h))

IsZeroAnalysis(a) ==
    /\ a.total_requests = 0
    /\ a.status_code_distribution = <<>>
    /\ a.error_count = 0
    /\ a.success_rate.num = 100 * a.success_rate.den

\* C8: an update cycle that finds the log file missing or cannot read it
\* still sends an update message with the zero-valued analysis and a
\* descriptive summary, and the connection stays registered.
C8_UnreadableSourceStillUpdates ==
    (last.step = "update" /\ last.source \in {"missing", "unreadable"}) =>
        /\ last.sent # <<>>
        /\ last.sent[1].type = "update"
        /\ IsZeroAnalysis(last.sent[1].analysis)
        /\ last.sent[1].summary.kind = "text"
        /\ InList(active_connections, last.handle)

\* C9: the update message of every update cycle carries an alerts field (the
\* events of the alert check run on the statistics of that cycle).
C9_UpdateCarriesAlerts ==
    (last.step = "update" /\ last.sent # <<>>) =>
        "alerts" \in DOMAIN last.sent[1]

\* C10: a broadcast call that other tasks' connect or disconnect calls
\* interleaved with has, once it is over, delivered the payload to every
\* subscriber that was registered during the whole call and is open.
C10_NoSkipUnderInterleaving ==
    (bc.pc \in {"done", "raised"} /\ bc.interfered) =>
        \A h \in bc.stayed : ~closed[h] => h \in bc.delivered

\* C11: a broadcast call never ends by raising to its caller, whatever the
\* other tasks do while it is suspended in a send.
C11_BroadcastNeverRaises == bc.pc # "raised"

\* C12: a handler has at most one failed send: after a send to its
\* connection has failed it attempts no other send to it.
C12_FailureIsTerminal == \A h \in Handles : send_failures[h] <= 1

\* The statuses of the lines of a text, <<>> for a line without one.
StatusesOf(text) ==
    LET lines == splitlines(text)
    IN  [k \in 1..Len(lines) |-> status_match(lines[k])]

\* Four lines whose statuses are 200, 201, 404 and 500, in this order.
FourLineExample(text) ==
    StatusesOf(text) = << <<<<"2", "0", "0">>>>, <<<<"2", "0", "1">>>>,
                          <<<<"4", "0", "4">>>>, <<<<"5", "0", "0">>>> >>

\* C13: parse_logs of four lines with the statuses 200, 201, 404, 500
\* returns exactly the line with status 500.
C13_ExampleOnly500 ==
    (fn_error_logs # <<>> /\ FourLineExample(fn_logs)) =>
        fn_error_logs[1] = <<splitlines(fn_logs)[4]>>

Digits == <<"0", "1", "2", "3", "4", "5", "6", "7", "8", "9">>

DigitValue(c) == (CHOOSE d \in 1..10 : Digits[d] = c) - 1

\* The line has a 3-digit number between 500 and 599 with whitespace right
\* before and right after it.
HasServerErrorToken(line) ==
    \E i \in 1..(Len(line) - 4) :
        /\ IsSpace(line[i]) /\ IsSpace(line[i + 4])
        /\ \A j \in (i + 1)..(i + 3) : IsDigit(line[j])
        /\ LET n == 100 * DigitValue(line[i + 1]) + 10 * DigitValue(line[i + 2])
                    + DigitValue(line[i + 3])
           IN  500 <= n /\ n <= 599

C15_AlwaysHttp200 ==
    response.endpoint # "none" =>
        /\ response.answer.status = 200
        /\ response.source # "present" =>
               "error" \in DOMAIN response.answer.body

RECURSIVE SumErrorCounts(_, _)
SumErrorCounts(d, k) ==
    IF k > Len(d) THEN 0
    ELSE (IF d[k].key[1] \in {"4", "5"} THEN d[k].count ELSE 0)
         + SumErrorCounts(d, k + 1)

\* C16: error_count of analyze_logs is the sum of the distribution counts of
\* the keys whose first digit is 4 or 5.
C16_ErrorCountIsSumOfErrorKeys ==
    fn_analysis # <<>> =>
        fn_analysis[1].error_count
            = SumErrorCounts(fn_analysis[1].status_code_distribution, 1)

\* C16 witness: a 4xx line, a 5xx line and a line that is no error.
C16_Witness ==
    /\ fn_analysis # <<>>
    /\ fn_analysis[1].error_count = 2
    /\ Len(fn_analysis[1].status_code_distribution) = 3
    /\ \E it \in Range(fn_analysis[1].status_code_distribution) :
           it.key[1] = "4"
    /\ \E it \in Range(fn_analysis[1].status_code_distribution) :
           it.key[1] = "2"

\* C17: with at least one request, success_rate is
\* (total_requests - error_count) / total_requests * 100 and lies in [0, 100];
\* the four-line example gives 4 requests, 2 errors, 50.0 and each of the
\* four statuses counted once.
C17_SuccessRateFormula ==
    fn_analysis # <<>> =>
        LET a == fn_analysis[1]
        IN  /\ a.total_requests >= 1 =>
                   /\ a.success_rate.den > 0
                   /\ a.success_rate.num * a.total_requests
                        = (a.total_requests - a.error_count) * 100
                          * a.success_rate.den
                   /\ 0 <= a.success_rate.num
                   /\ a.success_rate.num <= 100 * a.success_rate.den
            /\ FourLineExample(fn_logs) =>
                   /\ a.total_requests = 4
                   /\ a.error_count = 2
                   /\ a.success_rate.num = 50 * a.success_rate.den
                   /\ Len(a.status_code_distribution) = 4
                   /\ \A it \in Range(a.status_code_distribution) :
                          it.count = 1

\* C17 witness: the four-line example analysed.
C17_Witness ==
    /\ FourLineExample(fn_logs)
    /\ fn_analysis # <<>>
    /\ fn_analysis[1].success_rate.num = 50 * fn_analysis[1].success_rate.den

Abs(n) == IF n < 0 THEN 0 - n ELSE n

\* C18: the total, the error requests and the success rate printed by
\* analyze_logs_simple are total_requests, error_count and success_rate of
\* analyze_logs for the same text, the rate to the nearest tenth; the example
\* prints 4, 2 and 50.0.
C18_SummaryAgreesWithAnalysis ==
    (fn_analysis # <<>> /\ fn_summary # <<>>) =>
        LET a == fn_analysis[1]
            t == fn_summary[1]
        IN  /\ t.total_requests = a.total_requests
            /\ t.error_requests = a.error_count
            /\ 2 * Abs(t.success_rate_1f * a.success_rate.den
                       - 10 * a.success_rate.num) <= a.success_rate.den
            /\ FourLineExample(fn_logs) =>
                   /\ t.total_requests = 4
                   /\ t.error_requests = 2
                   /\ t.success_rate_1f = 500

\* C18 witness: one error in three requests, printed as 66.7.
C18_Witness ==
    /\ fn_analysis # <<>> /\ fn_summary # <<>>
    /\ fn_analysis[1].total_requests = 3
    /\ fn_analysis[1].error_count = 1
    /\ fn_summary[1].success_rate_1f = 667

Connected(h) == pc[h] \in {"initial_send", "error_send", "sleep", "update_send"}

\* C19: the cleanup of a handler runs exactly once when the handler ends and
\* not before: an ended handler has run it once and its connection is out of
\* active_connections, and the gauge counts exactly the accepted connections
\* whose handler has not ended.
C19_CleanupExactlyOnce ==
    /\ \A h \in Handles :
           /\ cleanups[h] = (IF pc[h] = "ended" THEN 1 ELSE 0)
           /\ pc[h] = "ended" => ~InList(active_connections, h)
           /\ Cardinality({j \in 1..Len(active_connections) :
                              active_connections[j] = h}) <= 1
    /\ gauge = Cardinality({h \in Handles : Connected(h)})

\* C19 witness: one handler has ended through a failed send and has cleaned
\* up, the other connection is still registered and counted.
C19_Witness ==
    \E h, g \in Handles :
        /\ pc[h] = "ended" /\ cleanups[h] = 1
        /\ pc[g] = "sleep" /\ active_connections = <<g>>
        /\ gauge = 1

\* C20: a broadcast call sends to no subscriber twice, and a call during
\* which no send fails and the registry does not change has sent to every
\* registered subscriber exactly once.
C20_AtMostOnce ==
    /\ \A i, j \in 1..Len(bc.sent_to) :
           bc.sent_to[i] = bc.sent_to[j] => i = j
    /\ (bc.pc = "done" /\ ~bc.interfered /\ bc.failed = {}) =>
           bc.sent_to = bc.start

\* C20 witness: a call with two subscribers, no failure and no change is
\* over.
C20_Witness ==
    /\ bc.pc = "done" /\ ~bc.interfered /\ bc.failed = {}
    /\ Len(bc.start) = 2
    /\ bc.delivered = Handles

\* C21: disconnect(h) leaves the registry without h and with every other
\* handle where it was, changes nothing when h is not registered, undoes a
\* connect(h), and a second disconnect(h) changes nothing.
C21_DisconnectIsRemoveIfPresent ==
    [][\A h \in Sockets :
          /\ ConnectCall(h) =>
                 disconnect(active_connections', h) = active_connections
          /\ DisconnectCall(h) =>
                 /\ active_connections'
                      = SelectSeq(active_connections, LAMBDA x : x # h)
                 /\ disconnect(active_connections', h) = active_connections'
                 /\ ~InList(active_connections, h) =>
                        active_connections' = active_connections]_vars

\* C21 witness: a registered handle was disconnected and two others are
\* still registered.
C21_Witness ==
    /\ last.step = "disconnect" /\ last.source = "registered"
    /\ Len(active_connections) >= 2
    /\ ~InList(active_connections, last.handle)

\* C22: the initial_data message has an alerts field (the alerts active in
\* the alert manager).
C22_InitialCarriesAlerts ==
    (last.step = "initial" /\ last.sent[1].type = "initial_data") =>
        "alerts" \in DOMAIN last.sent[1]

\* C23: the logs of an initial_data message are the content of the log file
\* at the step that sends it, and its analysis, error_logs and summary are
\* the three functions applied to these logs.
C23_InitialFromOneRead ==
    [][(last' # last /\ last'.step = "initial"
          /\ last'.sent[1].type = "initial_data") =>
            /\ last'.sent[1].logs = log_file.content
            /\ last'.sent[1].analysis = analyze_logs(log_file.content)
            /\ last'.sent[1].error_logs = parse_logs(last'.sent[1].logs)
            /\ last'.sent[1].summary
                 = analyze_logs_simple(last'.sent[1].logs)]_vars

\* C23 witness: an initial_data message of a log with a line, and the log has
\* been appended to since.
C23_Witness ==
    /\ last.step = "initial" /\ last.sent[1].type = "initial_data"
    /\ last.sent[1].analysis.total_requests = 1
    /\ log_file.status = "present"
    /\ LineCount(log_file.content) = 2

\* C27: the gauge equals the number of handles in active_connections in
\* every state, also after a broadcast has removed a subscriber.
C27_GaugeIsRegistrySize == gauge = Len(active_connections)

RuleOrder == <<"high_cpu", "high_memory", "high_error_rate">>

\* C24: the events of a call are in the order high_cpu, high_memory,
\* high_error_rate with no rule twice; a first call returns the events of all
\* the rules that hold; and for every next call, whether a rule emits and
\* whether it is active is fixed by its own predicate and its own membership
\* in active_alerts.
C24_FixedOrderIndependentRules ==
    /\ calls # <<>> =>
           alerts_returned
             = SelectSeq(RuleOrder, LAMBDA r : r \in Range(alerts_returned))
    /\ Len(calls) = 1 =>
           Range(alerts_returned) = {r \in RuleIds : RuleHolds(r, calls[1])}
    /\ \A metrics \in MetricsInputs, analysis \in AnalysisInputs :
           LET call == [metrics |-> metrics, analysis |-> analysis]
               res == check_alerts(active_alerts, metrics, analysis)
           IN  \A r \in RuleIds :
                   /\ r \in res.active_alerts <=> RuleHolds(r, call)
                   /\ r \in Range(res.alerts)
                        <=> (RuleHolds(r, call) /\ r \notin active_alerts)

\* C24 witness: one call returned the events of all three rules.
C24_Witness ==
    /\ calls # <<>>
    /\ alerts_returned = RuleOrder
    /\ active_alerts = RuleIds

\* C25: after a call high_cpu is active iff the cpu reading is above 80,
\* high_memory iff the memory reading is above 85, high_error_rate iff the
\* success rate is below 90; the readings 80, 85 and 90 themselves give no
\* event.
C25_StrictThresholds ==
    calls # <<>> =>
        LET m == LastCall.metrics
            a == LastCall.analysis
        IN  /\ "high_cpu" \in active_alerts
                  <=> (m.cpu # <<>> /\ m.cpu[1] > 80)
            /\ "high_memory" \in active_alerts
                  <=> (m.memory # <<>> /\ m.memory[1] > 85)
            /\ "high_error_rate" \in active_alerts
                  <=> (a # <<>> /\ a[1].success_rate # <<>>
                       /\ a[1].success_rate[1].num
                            < 90 * a[1].success_rate[1].den)
            /\ m.cpu = <<80>> => "high_cpu" \notin Range(alerts_returned)
            /\ m.memory = <<85>> => "high_memory" \notin Range(alerts_returned)
            /\ a = <<[success_rate |-> <<Whole(90)>>]>> =>
                   "high_error_rate" \notin Range(alerts_returned)

\* C25 witness: a call with cpu 80, memory 85 and success rate 90.
C25_Witness ==
    /\ calls # <<>>
    /\ LastCall.metrics.cpu = <<80>>
    /\ LastCall.metrics.memory = <<85>>
    /\ LastCall.analysis = <<[success_rate |-> <<Whole(90)>>]>>
    /\ active_alerts = {}
    /\ alerts_returned = <<>>

\* C28: a call given the analysis of the empty text, with cpu and memory not
\* above their thresholds, returns no high_error_rate event and leaves
\* high_error_rate out of active_alerts.
C28_NoAlertForEmptyLog ==
    (/\ calls # <<>>
     /\ LastCall.analysis = EmptyTextAnalysis
     /\ ~RuleHolds("high_cpu", LastCall)
     /\ ~RuleHolds("high_memory", LastCall)) =>
        /\ "high_error_rate" \notin Range(alerts_returned)
        /\ "high_error_rate" \notin active_alerts

\* C29: active_alerts and the returned events name only the three rules, a
\* missing cpu or memory reading leaves its rule inactive, and the disk
\* reading changes neither the events nor the active set of a call.
C29_DiskIgnoredMissingIsZero ==
    /\ active_alerts \subseteq RuleIds
    /\ Range(alerts_returned) \subseteq RuleIds
    /\ calls # <<>> =>
           /\ LastCall.metrics.cpu = <<>> => "high_cpu" \notin active_alerts
           /\ LastCall.metrics.memory = <<>> =>
                  "high_memory" \notin active_alerts
    /\ \A metrics \in MetricsInputs, analysis \in AnalysisInputs :
           \A d \in DiskReadings :
               check_alerts(active_alerts, [metrics EXCEPT !.disk = d],
                            analysis)
                 = check_alerts(active_alerts, metrics, analysis)

\* C29 witness: high_cpu was active, then a call with the cpu reading missing
\* and the disk above its threshold left nothing active.
C29_Witness ==
    /\ Len(calls) = 2
    /\ RuleHolds("high_cpu", calls[1])
    /\ calls[2].metrics.cpu = <<>>
    /\ calls[2].metrics.disk[1] > DiskThreshold
    /\ active_alerts = {}

\* The number of the statuses sts that are code, and the first of them.
CountOf(sts, code) ==
    Cardinality({k \in 1..Len(sts) : sts[k] = <<code>>})

FirstLineOf(sts, code) ==
    SetMin({k \in 1..Len(sts) : sts[k] = <<code>>})

ErrorCodesOf(sts) ==
    {st[1] : st \in {m \in Range(sts) : m # <<>> /\ m[1][1] \in {"4", "5"}}}

\* c1 is listed before c2: it has more lines, or as many and an earlier first
\* line.
ListedBefore(sts, c1, c2) ==
    \/ CountOf(sts, c1) > CountOf(sts, c2)
    \/ /\ CountOf(sts, c1) = CountOf(sts, c2)
       /\ FirstLineOf(sts, c1) < FirstLineOf(sts, c2)

\* C26: the summary has a list of error codes iff the text has an error
\* line; the list holds the 3 first of the text's error codes (all of them
\* when there are fewer) in the order of descending count, codes of equal
\* count in the order of their first line.
C26_TopThreeErrorCodes ==
    fn_summary # <<>> =>
        LET codes == fn_summary[1].codes
            sts == StatusesOf(fn_logs)
            E == ErrorCodesOf(sts)
        IN  /\ codes # <<>> <=> E # {}
            /\ codes # <<>> =>
                   /\ Len(codes[1]) = (IF Cardinality(E) < 3
                                       THEN Cardinality(E) ELSE 3)
                   /\ Range(codes[1]) \subseteq E
                   /\ \A i, j \in 1..Len(codes[1]) :
                          i < j => ListedBefore(sts, codes[1][i], codes[1][j])
                   /\ \A x \in E \ Range(codes[1]) :
                          \A i \in 1..Len(codes[1]) :
                              ListedBefore(sts, codes[1][i], x)

\* C26 witness: four error codes, 500 twice and listed first, then 404 and
\* 403 in the order of their first lines, 502 left out.
C26_Witness ==
    /\ fn_summary # <<>>
    /\ Cardinality(ErrorCodesOf(StatusesOf(fn_logs))) = 4
    /\ fn_summary[1].codes
         = << << <<"5", "0", "0">>, <<"4", "0", "4">>, <<"4", "0", "3">> >> >>

\* The analysis b has at least the requests, the errors and the count of
\* every status that the analysis a has.
NotLess(a, b) ==
    /\ a.total_requests <= b.total_requests
    /\ a.error_count <= b.error_count
    /\ \A it \in Range(a.status_code_distribution) :
           \E jt \in Range(b.status_code_distribution) :
               jt.key = it.key /\ it.count <= jt.count

\* C30: with a log file that exists and only grows by whole lines, the
\* analysis of a message sent to a subscriber has at least the requests, the
\* errors and the per-status counts of the message sent to it before.
C30_CountsNeverDecrease ==
    [][(/\ last' # last
        /\ last.handle # 0 /\ last'.handle = last.handle
        /\ last.sent # <<>> /\ last'.sent # <<>>
        /\ "analysis" \in DOMAIN last.sent[1]
        /\ "analysis" \in DOMAIN last'.sent[1]) =>
            NotLess(last.sent[1].analysis, last'.sent[1].analysis)]_vars

\* C30 witness: an update that counts two requests and one error, after the
\* file has grown.
C30_Witness ==
    /\ last.step = "update" /\ last.sent # <<>>
    /\ last.sent[1].analysis.total_requests = 2
    /\ last.sent[1].analysis.error_count = 1
    /\ LineCount(log_file.content) = 2

====
